---------------------------- MODULE Spec2Model ----------------------------
(***************************************************************************)
(* Vote casting, election lifecycle and results tally of the online-voting *)
(* application: the Postgres tables with their constraints and row-level   *)
(* security policies, and the React pages that read and write them.        *)
(***************************************************************************)
EXTENDS Integers, Sequences, FiniteSets, TLC

(***************************************************************************)
(* Bounds of the model.                                                    *)
(***************************************************************************)
NumUsers == 2
MaxElections == 1
MaxCandidates == 1
NumReceipts == 2
NumVotePages == 2
NumAdminPages == 1

Users == 1..NumUsers
Receipts == 1..NumReceipts
VotePages == 1..NumVotePages
AdminPages == 1..NumAdminPages

\* null of an id-valued field; auth.uid() of a request without a session
Null == 0

\* notifications (sonner): the kind, the Vote page that emitted it (0 for the
\* other pages) and, for the error of a rejected insert, its message
NoToast == [kind |-> "none", page |-> 0, message |-> ""]
Toast(kind, page, message) == [kind |-> kind, page |-> page, message |-> message]

VARIABLES
    elections,        \* public.elections: rows [id, start_time, end_time, status,
                      \*                         results_published]
    nextElectionId,   \* gen_random_uuid(): ids are fresh, never reused
    candidates,       \* public.candidates: rows [id, election_id]
    nextCandidateId,
    votes,            \* public.votes: rows [election_id, candidate_id, voter_id,
                      \*                     vote_receipt, face_verified]
    sessions,         \* users whose browser holds a valid auth session
    now,              \* the time (NOW() of the database, Date.now() of a browser)
    profiles,         \* public.profiles: user id -> [face_registered]
    face_data,        \* public.face_data: the user ids with a row
    page,             \* a tab on the Dashboard, FaceRegistration or an admin page
    votePage,         \* Vote component instances (browser tabs)
    cameraRefused,    \* the Vote pages in which getUserMedia has been refused
                      \* since the mount
    adminPage,        \* ElectionsManagement component instances
    resultsPage,      \* a Results component instance
    toast             \* the notification the latest step emitted (sonner)

vars == <<elections, nextElectionId, candidates, nextCandidateId, votes,
          sessions, now, profiles, face_data, page, votePage, cameraRefused,
          adminPage, resultsPage, toast>>

dbVars == <<elections, nextElectionId, candidates, nextCandidateId, votes>>

(***************************************************************************)
(* Schema: roles, statuses, constraints and policies.                      *)
(***************************************************************************)
app_role == {"user", "admin"}

\* handle_new_user gives every user the role 'user'; user 1 is an administrator
user_roles ==
    {[user_id |-> u, role |-> "user"] : u \in Users}
        \cup {[user_id |-> 1, role |-> "admin"]}

has_role(_user_id, _role) ==
    \E r \in user_roles : r.user_id = _user_id /\ r.role = _role

ElectionStatus == {"scheduled", "active", "paused", "ended"}

\* auth.uid() of a request sent from the browser of user u
auth_uid(u) == IF u \in sessions THEN u ELSE Null

ElectionRow(id) == CHOOSE e \in elections : e.id = id
ElectionExists(id) == \E e \in elections : e.id = id
CandidateExists(id) == \E c \in candidates : c.id = id

(***************************************************************************)
(* public.votes: constraints, policies and statements.                     *)
(***************************************************************************)
\* the row of an insert that sends face_verified: false
VoteRowUnverified(e, c, v, r) ==
    [election_id |-> e, candidate_id |-> c, voter_id |-> v,
     vote_receipt |-> r, face_verified |-> FALSE]

\* the row verifyAndSubmit inserts
VoteRow(e, c, v, r) ==
    [election_id |-> e, candidate_id |-> c, voter_id |-> v,
     vote_receipt |-> r, face_verified |-> TRUE]

\* the votes table without the UNIQUE of vote_receipt
votes_vote_receipt_key_dropped(row) == TRUE

\* vote_receipt TEXT NOT NULL UNIQUE
votes_vote_receipt_key(row) ==
    \A b \in votes : b.vote_receipt # row.vote_receipt

\* the votes table without UNIQUE(election_id, voter_id)
votes_election_id_voter_id_key_dropped(row) == TRUE

\* UNIQUE(election_id, voter_id)
votes_election_id_voter_id_key(row) ==
    \A b \in votes :
        ~(b.election_id = row.election_id /\ b.voter_id = row.voter_id)

\* election_id REFERENCES elections(id), candidate_id REFERENCES candidates(id)
votes_fkey(row) ==
    ElectionExists(row.election_id) /\ CandidateExists(row.candidate_id)

\* POLICY "Users can insert their own vote": WITH CHECK (auth.uid() = voter_id)
votes_insert_policy(uid, row) == uid = row.voter_id

\* POLICIES "Users can view their own vote receipt", "Admins can view all votes"
votes_select_policy(uid, row) ==
    uid = row.voter_id \/ has_role(uid, "admin")

\* the error of INSERT INTO votes for the request of uid: the policy is
\* checked first, then the unique indexes, then the foreign keys
InsertVoteError(uid, row) ==
    CASE ~votes_insert_policy(uid, row)        -> "row-level security policy"
      [] ~votes_vote_receipt_key(row)          -> "votes_vote_receipt_key"
      [] ~votes_election_id_voter_id_key(row)  -> "votes_election_id_voter_id_key"
      [] ~votes_fkey(row)                      -> "votes_fkey"
      [] OTHER                                 -> "none"

InsertVoteOk(uid, row) == InsertVoteError(uid, row) = "none"

\* an INSERT ... ON CONFLICT (election_id, voter_id) DO UPDATE in place of the INSERT
VotesAfterUpsert(uid, row) ==
    IF votes_insert_policy(uid, row) /\ votes_fkey(row)
    THEN {b \in votes : ~(b.election_id = row.election_id
                          /\ b.voter_id = row.voter_id)} \cup {row}
    ELSE votes

\* the table after the INSERT statement
VotesAfterInsert(uid, row) ==
    IF InsertVoteOk(uid, row) THEN votes \cup {row} ELSE votes

\* SELECT ... FROM votes as seen by uid
SelectVotes(uid) == {b \in votes : votes_select_policy(uid, b)}

(***************************************************************************)
(* public.elections and public.candidates: policies and statements.        *)
(***************************************************************************)
\* POLICIES "Anyone can view active elections", "Admins can manage elections"
elections_select_policy(uid, row) ==
    row.status \in {"active", "ended"} \/ has_role(uid, "admin")

\* a policy on elections that lets every request write
elections_manage_policy_open(uid) == TRUE

\* POLICY "Admins can manage elections" (FOR ALL)
elections_manage_policy(uid) == has_role(uid, "admin")

\* POLICY "Admins can manage candidates" (FOR ALL)
candidates_manage_policy(uid) == has_role(uid, "admin")

SelectElections(uid) == {e \in elections : elections_select_policy(uid, e)}

\* .from("elections").select("*").eq("id", id).single(): the rows found
SelectElection(uid, id) == {e \in SelectElections(uid) : e.id = id}

\* a candidates query without the election_id filter
SelectCandidatesUnfiltered(id) == candidates

\* POLICY "Anyone can view candidates": USING (TRUE)
SelectCandidates(id) == {c \in candidates : c.election_id = id}

\* DELETE FROM elections WHERE id = ..., with ON DELETE CASCADE
ElectionsAfterDelete(id) == {e \in elections : e.id # id}
CandidatesAfterElectionDelete(id) == {c \in candidates : c.election_id # id}

\* the votes table if the delete of an election did not cascade to it
VotesAfterElectionDeleteNoCascade(id) == votes

VotesAfterElectionDelete(id) ==
    {b \in votes :
        /\ b.election_id # id
        /\ \E c \in CandidatesAfterElectionDelete(id) : c.id = b.candidate_id}

\* DELETE FROM candidates WHERE id = ..., with ON DELETE CASCADE
CandidatesAfterDelete(id) == {c \in candidates : c.id # id}
VotesAfterCandidateDelete(id) == {b \in votes : b.candidate_id # id}

\* an update of the status that also withdraws the results
ElectionsAfterStatusUnpublishing(id, status) ==
    {IF e.id = id
     THEN [e EXCEPT !.status = status, !.results_published = FALSE]
     ELSE e : e \in elections}

\* UPDATE elections SET status = ... WHERE id = ...
ElectionsAfterStatus(id, status) ==
    {IF e.id = id THEN [e EXCEPT !.status = status] ELSE e : e \in elections}

\* UPDATE elections SET results_published = TRUE WHERE id = ...
ElectionsAfterPublish(id) ==
    {IF e.id = id THEN [e EXCEPT !.results_published = TRUE] ELSE e :
        e \in elections}

(***************************************************************************)
(* The Vote page (src/pages/Vote.tsx).  A page instance is one mounted     *)
(* component in a browser tab of its user.  call* is the invocation of     *)
(* verifyAndSubmit in flight, which outlives an unmount.                   *)
(***************************************************************************)
ClosedVotePage ==
    [mounted |-> FALSE, user |-> Null, electionId |-> Null, pc |-> "closed",
     candidates |-> {}, selectedCandidate |-> Null,
     showVerification |-> FALSE, verifying |-> FALSE, hasVoted |-> FALSE,
     stream |-> "null",
     callPc |-> "idle", callCandidate |-> Null, callElection |-> Null,
     callUser |-> Null]

\* useState initial values at mount; loadElection starts in the effect
MountedVotePage(u, e) ==
    [ClosedVotePage EXCEPT !.mounted = TRUE, !.user = u, !.electionId = e,
                           !.pc = "loadElection"]

\* the component state is dropped at unmount; a call in flight goes on
UnmountedVotePage(pg) ==
    [ClosedVotePage EXCEPT !.callPc = pg.callPc,
                           !.callCandidate = pg.callCandidate,
                           !.callElection = pg.callElection,
                           !.callUser = pg.callUser]

\* the user opens /vote/:electionId in a tab
OpenVote(p, u, e) ==
    /\ ~votePage[p].mounted
    /\ votePage[p].callPc = "idle"
    /\ votePage' = [votePage EXCEPT ![p] = MountedVotePage(u, e)]
    /\ toast' = NoToast
    /\ UNCHANGED <<now, cameraRefused, dbVars, sessions, profiles, face_data,
                   page, adminPage, resultsPage>>

\* loadElection: getSession and the elections query
loadElection(p) ==
    LET pg == votePage[p]
        electionData == SelectElection(auth_uid(pg.user), pg.electionId)
        votable == \E e \in electionData : e.status = "active"
    IN  /\ pg.mounted /\ pg.pc = "loadElection"
        /\ votePage' = [votePage EXCEPT ![p] =
              IF pg.user \notin sessions THEN ClosedVotePage  \* to "/auth"
              ELSE IF ~votable THEN ClosedVotePage            \* to "/dashboard"
              ELSE [pg EXCEPT !.pc = "loadCandidates"]]
        /\ toast' = IF pg.user \in sessions /\ ~votable
                    THEN Toast("error", p, "not available") ELSE NoToast
        /\ UNCHANGED <<now, cameraRefused, dbVars, sessions, profiles,
                       face_data, page, adminPage, resultsPage>>

\* loadElection: the candidates query
loadElectionCandidates(p) ==
    LET pg == votePage[p]
    IN  /\ pg.mounted /\ pg.pc = "loadCandidates"
        /\ votePage' = [votePage EXCEPT ![p] =
              [pg EXCEPT !.candidates =
                              {c.id : c \in SelectCandidates(pg.electionId)},
                         !.pc = "loadVote"]]
        /\ toast' = NoToast
        /\ UNCHANGED <<now, cameraRefused, dbVars, sessions, profiles,
                       face_data, page, adminPage, resultsPage>>

\* loadElection: the votes query, setHasVoted, setLoading(false)
loadElectionVote(p) ==
    LET pg == votePage[p]
        voteData == {b \in SelectVotes(auth_uid(pg.user)) :
                        /\ b.election_id = pg.electionId
                        /\ b.voter_id = pg.user}
    IN  /\ pg.mounted /\ pg.pc = "loadVote"
        /\ votePage' = [votePage EXCEPT ![p] =
              [pg EXCEPT !.hasVoted = (voteData # {}), !.pc = "ready"]]
        /\ toast' = NoToast
        /\ UNCHANGED <<now, cameraRefused, dbVars, sessions, profiles,
                       face_data, page, adminPage, resultsPage>>

\* the candidate cards are rendered when loaded and not voted; the dialog is modal
CandidateListShown(pg) ==
    pg.mounted /\ pg.pc = "ready" /\ ~pg.hasVoted /\ ~pg.showVerification

\* onClick of a candidate card
setSelectedCandidate(p, c) ==
    LET pg == votePage[p]
    IN  /\ CandidateListShown(pg)
        /\ c \in pg.candidates
        /\ pg.selectedCandidate # c
        /\ votePage' = [votePage EXCEPT ![p] = [pg EXCEPT !.selectedCandidate = c]]
        /\ toast' = NoToast
        /\ UNCHANGED <<now, cameraRefused, dbVars, sessions, profiles,
                       face_data, page, adminPage, resultsPage>>

\* the Cast Vote button is rendered only with a selected candidate
handleCastVote(p) ==
    LET pg == votePage[p]
    IN  /\ CandidateListShown(pg)
        /\ pg.selectedCandidate # Null
        /\ votePage' = [votePage EXCEPT ![p] = [pg EXCEPT !.showVerification = TRUE]]
        /\ toast' = NoToast
        /\ UNCHANGED <<now, cameraRefused, dbVars, sessions, profiles,
                       face_data, page, adminPage, resultsPage>>

DialogShown(pg) ==
    pg.mounted /\ pg.pc = "ready" /\ ~pg.hasVoted /\ pg.showVerification

\* Dialog onOpenChange={setShowVerification}: the user dismisses the dialog
DialogOnOpenChange(p) ==
    LET pg == votePage[p]
    IN  /\ DialogShown(pg)
        /\ votePage' = [votePage EXCEPT ![p] = [pg EXCEPT !.showVerification = FALSE]]
        /\ toast' = NoToast
        /\ UNCHANGED <<now, cameraRefused, dbVars, sessions, profiles,
                       face_data, page, adminPage, resultsPage>>

\* Start Verification is rendered while !stream; getUserMedia may be refused
startCamera(p, granted) ==
    LET pg == votePage[p]
    IN  /\ DialogShown(pg)
        /\ pg.stream = "null"
        /\ votePage' = [votePage EXCEPT ![p] =
              IF granted THEN [pg EXCEPT !.stream = "live"] ELSE pg]
        /\ cameraRefused' = IF granted THEN cameraRefused
                            ELSE cameraRefused \cup {p}
        /\ toast' = IF granted THEN NoToast
                    ELSE Toast("error", p, "camera")
        /\ UNCHANGED <<now, dbVars, sessions, profiles, face_data, page,
                       adminPage, resultsPage>>

\* a Verify & Submit Vote button that is rendered without a stream
SubmitEnabledWithoutStream(pg) == DialogShown(pg) /\ ~pg.verifying

\* the Verify & Submit Vote button is rendered and enabled
SubmitEnabled(pg) == DialogShown(pg) /\ pg.stream # "null" /\ ~pg.verifying

\* verifyAndSubmit up to the simulated verification delay; without a session
\* it throws an Error, which the catch block reports
verifyAndSubmit(p) ==
    LET pg == votePage[p]
    IN  /\ SubmitEnabled(pg)
        /\ votePage' = [votePage EXCEPT ![p] =
              IF pg.user \notin sessions
              THEN [pg EXCEPT !.verifying = FALSE]
              ELSE [pg EXCEPT !.verifying = TRUE,
                              !.callPc = "delay",
                              !.callCandidate = pg.selectedCandidate,
                              !.callElection = pg.electionId,
                              !.callUser = pg.user]]
        /\ toast' = IF pg.user \notin sessions
                    THEN Toast("error", p, "Not authenticated") ELSE NoToast
        /\ UNCHANGED <<now, cameraRefused, dbVars, sessions, profiles,
                       face_data, page, adminPage, resultsPage>>

\* the notification after the insert returned: toast.success, or the catch
\* block, which reports error.message only if `error instanceof Error`
ToastAfterInsert(p, error, isError) ==
    IF error = "none" THEN Toast("success", p, "")
    ELSE IF isError THEN Toast("error", p, error)
    ELSE NoToast

\* the page after the insert returned, if setVerifying(false) were not in a
\* finally block but at the end of the try block
VotePageAfterInsertNoFinally(pg, ok) ==
    LET done == [pg EXCEPT !.callPc = "idle", !.callCandidate = Null,
                           !.callElection = Null, !.callUser = Null]
    IN  IF ~pg.mounted THEN done
        ELSE IF ok
        THEN [done EXCEPT !.stream = IF pg.stream = "null" THEN "null"
                                     ELSE "stopped",
                          !.showVerification = FALSE,
                          !.hasVoted = TRUE,
                          !.verifying = FALSE]
        ELSE done

\* the page after the insert of verifyAndSubmit returned
VotePageAfterInsert(pg, ok) ==
    LET done == [pg EXCEPT !.callPc = "idle", !.callCandidate = Null,
                           !.callElection = Null, !.callUser = Null]
    IN  IF ~pg.mounted THEN done
        ELSE IF ok
        THEN [done EXCEPT !.stream = IF pg.stream = "null" THEN "null"
                                     ELSE "stopped",
                          !.showVerification = FALSE,
                          !.hasVoted = TRUE,
                          !.verifying = FALSE]
        ELSE [done EXCEPT !.verifying = FALSE]

\* verifyAndSubmit after the delay: the receipt, the insert, then/catch/finally.
\* isError is `error instanceof Error` of the error object the client returned.
verifyAndSubmitInsert(p, receipt, isError) ==
    LET pg == votePage[p]
        row == VoteRow(pg.callElection, pg.callCandidate, pg.callUser, receipt)
        uid == auth_uid(pg.callUser)
    IN  /\ pg.callPc = "delay"
        /\ votes' = VotesAfterInsert(uid, row)
        /\ votePage' = [votePage EXCEPT ![p] =
              VotePageAfterInsert(pg, InsertVoteOk(uid, row))]
        /\ toast' = ToastAfterInsert(p, InsertVoteError(uid, row), isError)
        /\ UNCHANGED <<now, cameraRefused, elections, nextElectionId,
                       candidates, nextCandidateId, sessions, profiles,
                       face_data, page, adminPage, resultsPage>>

\* navigate("/dashboard") by the Back button or by the timer after a cast:
\* the component unmounts and the cleanup effect stops the stream
navigateDashboard(p) ==
    LET pg == votePage[p]
    IN  /\ pg.mounted /\ pg.pc = "ready"
        /\ votePage' = [votePage EXCEPT ![p] = UnmountedVotePage(pg)]
        /\ cameraRefused' = cameraRefused \ {p}
        /\ toast' = NoToast
        /\ UNCHANGED <<now, dbVars, sessions, profiles, face_data, page,
                       adminPage, resultsPage>>

(***************************************************************************)
(* The ElectionsManagement page.  elections is the list the page loaded    *)
(* last; the buttons of an election are rendered from that list.           *)
(***************************************************************************)
ClosedAdminPage == [open |-> FALSE, user |-> Null, elections |-> {}]

\* checkAdminAndLoadElections: session, admin role row, then loadElections
checkAdminAndLoadElections(a, u) ==
    /\ ~adminPage[a].open
    /\ adminPage' = [adminPage EXCEPT ![a] =
          IF u \in sessions /\ has_role(u, "admin")
          THEN [open |-> TRUE, user |-> u,
                elections |-> SelectElections(auth_uid(u))]
          ELSE ClosedAdminPage]            \* navigate("/auth" or "/dashboard")
    /\ toast' = IF u \in sessions /\ ~has_role(u, "admin")
                THEN Toast("error", 0, "") ELSE NoToast
    /\ UNCHANGED <<now, cameraRefused, dbVars, sessions, profiles, face_data,
                   page, votePage, resultsPage>>

\* the row of an insert that creates the election as active
NewElectionRowActive(id, start_time, end_time) ==
    [id |-> id, start_time |-> start_time, end_time |-> end_time,
     status |-> "active", results_published |-> FALSE]

\* the row onSubmit inserts: status "scheduled", results_published by default
NewElectionRow(id, start_time, end_time) ==
    [id |-> id, start_time |-> start_time, end_time |-> end_time,
     status |-> "scheduled", results_published |-> FALSE]

\* loadElections after a statement of the page: setElections(data)
AdminPageReloaded(a, uid, rows) ==
    [adminPage EXCEPT ![a] =
        [@ EXCEPT !.elections = {e \in rows : elections_select_policy(uid, e)}]]

\* onSubmit of the create-election form, then loadElections
ElectionsOnSubmit(a, start_time, end_time) ==
    LET pg == adminPage[a]
        uid == auth_uid(pg.user)
        row == NewElectionRow(nextElectionId, start_time, end_time)
        rows == IF elections_manage_policy(uid)
                THEN elections \cup {row} ELSE elections
    IN  /\ pg.open
        /\ pg.user \in sessions                      \* if (!session) return
        /\ nextElectionId <= MaxElections
        /\ elections' = rows
        /\ nextElectionId' = IF elections_manage_policy(uid)
                             THEN nextElectionId + 1 ELSE nextElectionId
        /\ adminPage' = AdminPageReloaded(a, uid, rows)
        /\ toast' = IF elections_manage_policy(uid)
                    THEN Toast("success", 0, "") ELSE Toast("error", 0, "")
        /\ UNCHANGED <<now, cameraRefused, candidates, nextCandidateId, votes,
                       sessions, profiles, face_data, page, votePage,
                       resultsPage>>

\* the status buttons rendered for an election shown with status `shown`
StatusButtons(shown) ==
    CASE shown = "scheduled" -> {"active"}
      [] shown = "active"    -> {"paused", "ended"}
      [] shown = "paused"    -> {"active"}
      [] OTHER               -> {}

\* updateElectionStatus(id, status) from a rendered button, then loadElections
updateElectionStatus(a, id, status) ==
    LET pg == adminPage[a]
        uid == auth_uid(pg.user)
        rows == IF elections_manage_policy(uid)
                THEN ElectionsAfterStatus(id, status) ELSE elections
    IN  /\ pg.open
        /\ \E shown \in pg.elections :
              shown.id = id /\ status \in StatusButtons(shown.status)
        /\ elections' = rows
        /\ adminPage' = AdminPageReloaded(a, uid, rows)
        /\ toast' = Toast("success", 0, "")
        /\ UNCHANGED <<now, cameraRefused, nextElectionId, candidates,
                       nextCandidateId, votes, sessions, profiles, face_data,
                       page, votePage, resultsPage>>

\* publishResults(id) from the Publish Results button, then loadElections
publishResults(a, id) ==
    LET pg == adminPage[a]
        uid == auth_uid(pg.user)
        rows == IF elections_manage_policy(uid)
                THEN ElectionsAfterPublish(id) ELSE elections
    IN  /\ pg.open
        /\ \E shown \in pg.elections :
              /\ shown.id = id
              /\ shown.status = "ended" /\ ~shown.results_published
        /\ elections' = rows
        /\ adminPage' = AdminPageReloaded(a, uid, rows)
        /\ toast' = Toast("success", 0, "")
        /\ UNCHANGED <<now, cameraRefused, nextElectionId, candidates,
                       nextCandidateId, votes, sessions, profiles, face_data,
                       page, votePage, resultsPage>>

\* deleteElection(id) confirmed by the admin, then loadElections
deleteElection(a, id) ==
    LET pg == adminPage[a]
        uid == auth_uid(pg.user)
        allowed == elections_manage_policy(uid)
        rows == IF allowed THEN ElectionsAfterDelete(id) ELSE elections
    IN  /\ pg.open
        /\ \E shown \in pg.elections : shown.id = id
        /\ elections' = rows
        /\ candidates' = IF allowed THEN CandidatesAfterElectionDelete(id)
                         ELSE candidates
        /\ votes' = IF allowed THEN VotesAfterElectionDelete(id) ELSE votes
        /\ adminPage' = AdminPageReloaded(a, uid, rows)
        /\ toast' = Toast("success", 0, "")
        /\ UNCHANGED <<now, cameraRefused, nextElectionId, nextCandidateId,
                       sessions, profiles, face_data, page, votePage,
                       resultsPage>>

\* the admin leaves the page
AdminNavigate(a) ==
    /\ adminPage[a].open
    /\ adminPage' = [adminPage EXCEPT ![a] = ClosedAdminPage]
    /\ toast' = NoToast
    /\ UNCHANGED <<now, cameraRefused, dbVars, sessions, profiles, face_data,
                   page, votePage, resultsPage>>

(***************************************************************************)
(* The CandidatesManagement page.  Its lists may be stale, so the election *)
(* of a new candidate and the candidate to delete are any ids issued so    *)
(* far, and the session may have ended since the page was loaded; the      *)
(* statement decides.                                                      *)
(***************************************************************************)
\* onSubmit of the add-candidate form by user u
CandidatesOnSubmit(u, election_id) ==
    LET uid == auth_uid(u)
        row == [id |-> nextCandidateId, election_id |-> election_id]
        ok == candidates_manage_policy(uid) /\ ElectionExists(election_id)
    IN  /\ has_role(u, "admin")      \* the page was loaded: checkAdminAndLoadData
        /\ election_id \in 1..(nextElectionId - 1)
        /\ nextCandidateId <= MaxCandidates
        /\ candidates' = IF ok THEN candidates \cup {row} ELSE candidates
        /\ nextCandidateId' = IF ok THEN nextCandidateId + 1
                              ELSE nextCandidateId
        /\ toast' = IF ok THEN Toast("success", 0, "")
                    ELSE Toast("error", 0, "")
        /\ UNCHANGED <<now, cameraRefused, elections, nextElectionId, votes,
                       sessions, profiles, face_data, page, votePage,
                       adminPage, resultsPage>>

\* deleteCandidate(id) confirmed by user u
deleteCandidate(u, id) ==
    LET uid == auth_uid(u)
        allowed == candidates_manage_policy(uid)
    IN  /\ has_role(u, "admin")      \* the page was loaded: checkAdminAndLoadData
        /\ id \in 1..(nextCandidateId - 1)
        /\ candidates' = IF allowed THEN CandidatesAfterDelete(id)
                         ELSE candidates
        /\ votes' = IF allowed THEN VotesAfterCandidateDelete(id) ELSE votes
        /\ toast' = Toast("success", 0, "")
        /\ UNCHANGED <<now, cameraRefused, elections, nextElectionId,
                       nextCandidateId, sessions, profiles, face_data, page,
                       votePage, adminPage, resultsPage>>

(***************************************************************************)
(* The Results page.  Numbers that come out of a division are kept exact,  *)
(* as <<numerator, denominator>> in lowest terms; a zero denominator is    *)
(* what IEEE division by zero yields (NaN for 0/0, Infinity otherwise).    *)
(***************************************************************************)
RECURSIVE Gcd(_, _)
Gcd(a, b) == IF b = 0 THEN a ELSE Gcd(b, a % b)

NaN == <<0, 0>>
Infinity == <<1, 0>>
Number(n) == <<n, 1>>

\* (n / d) * 100
PercentOf(n, d) ==
    IF d = 0 THEN (IF n = 0 THEN NaN ELSE Infinity)
    ELSE LET g == Gcd(n * 100, d) IN <<(n * 100) \div g, d \div g>>

\* a[c] || 0 for the object a keyed by candidate id
OrZero(a, c) == IF c \in DOMAIN a THEN a[c] ELSE 0

\* votesData.reduce((acc, vote) => { acc[vote.candidate_id] = (acc[...] || 0) + 1 }, {})
RECURSIVE ReduceVoteCounts(_, _)
ReduceVoteCounts(votesData, acc) ==
    IF votesData = {} THEN acc
    ELSE LET vote == CHOOSE v \in votesData : TRUE
             c == vote.candidate_id
         IN  ReduceVoteCounts(votesData \ {vote},
                [k \in DOMAIN acc \cup {c} |->
                    IF k = c THEN OrZero(acc, c) + 1 ELSE acc[k]])

EmptyObject == [k \in {} |-> 0]

\* the percentage without the voteCount > 0 guard
PercentageUnguarded(n, voteCount) == PercentOf(n, voteCount)

\* percentage: voteCount > 0 ? ((voteCounts[id] || 0) / voteCount) * 100 : 0
Percentage(n, voteCount) ==
    IF voteCount > 0 THEN PercentOf(n, voteCount) ELSE Number(0)

\* candidatesData.map(candidate => ({...candidate, votes, percentage}))
RECURSIVE MapResults(_, _, _)
MapResults(candidatesData, voteCounts, voteCount) ==
    IF candidatesData = <<>> THEN <<>>
    ELSE LET id == Head(candidatesData)
         IN  <<[id |-> id,
                votes |-> OrZero(voteCounts, id),
                percentage |-> Percentage(OrZero(voteCounts, id), voteCount)]>>
             \o MapResults(Tail(candidatesData), voteCounts, voteCount)

\* the comparator of the sort: (a, b) => b.votes - a.votes
CompareVotes(a, b) == b.votes - a.votes

\* x put into the sorted rows behind every row that does not sort after it
RECURSIVE InsertSorted(_, _)
InsertSorted(rows, x) ==
    IF rows = <<>> THEN <<x>>
    ELSE IF CompareVotes(Head(rows), x) <= 0
         THEN <<Head(rows)>> \o InsertSorted(Tail(rows), x)
         ELSE <<x>> \o rows

\* Array.prototype.sort with the comparator: a stable sort
RECURSIVE SortResults(_, _)
SortResults(rows, sorted) ==
    IF rows = <<>> THEN sorted
    ELSE SortResults(Tail(rows), InsertSorted(sorted, Head(rows)))

\* resultsWithVotes of loadResults
ResultsWithVotes(candidatesData, votesData) ==
    SortResults(MapResults(candidatesData,
                           ReduceVoteCounts(votesData, EmptyObject),
                           Cardinality(votesData)),
                <<>>)

\* the orders in which a query without ORDER BY may return the ids
Orderings(ids) ==
    {q \in [1..Cardinality(ids) -> ids] :
        \A i, j \in 1..Cardinality(ids) : i # j => q[i] # q[j]}

ClosedResultsPage ==
    [pc |-> "closed", viewer |-> Null, electionId |-> Null,
     candidatesData |-> <<>>, results |-> <<>>, totalVotes |-> 0]

\* the tab after navigate("/dashboard"): the Results component is unmounted
DashboardFromResults == [ClosedResultsPage EXCEPT !.pc = "dashboard"]

\* user u opens /results/:electionId
OpenResults(u, e) ==
    /\ resultsPage.pc \in {"closed", "dashboard"}
    /\ resultsPage' = [ClosedResultsPage EXCEPT !.pc = "loadElection",
                                                !.viewer = u,
                                                !.electionId = e]
    /\ toast' = NoToast
    /\ UNCHANGED <<now, cameraRefused, dbVars, sessions, profiles, face_data,
                   page, votePage, adminPage>>

\* loadResults without the results_published check
ResultsAvailableUnchecked(electionData) == electionData # {}

\* the election found by loadResults allows the results to be shown
ResultsAvailable(electionData) ==
    \E e \in electionData : e.results_published

\* loadResults: the elections query and the results_published check
loadResults ==
    LET pg == resultsPage
        electionData == SelectElection(auth_uid(pg.viewer), pg.electionId)
    IN  /\ pg.pc = "loadElection"
        /\ resultsPage' = IF ResultsAvailable(electionData)
                          THEN [pg EXCEPT !.pc = "loadCandidates"]
                          ELSE DashboardFromResults  \* navigate("/dashboard")
        /\ toast' = NoToast
        /\ UNCHANGED <<now, cameraRefused, dbVars, sessions, profiles,
                       face_data, page, votePage, adminPage>>

\* loadResults: the candidates query
loadResultsCandidates ==
    LET pg == resultsPage
    IN  /\ pg.pc = "loadCandidates"
        /\ \E order \in Orderings({c.id : c \in SelectCandidates(pg.electionId)}) :
              resultsPage' = [pg EXCEPT !.candidatesData = order,
                                        !.pc = "loadVotes"]
        /\ toast' = NoToast
        /\ UNCHANGED <<now, cameraRefused, dbVars, sessions, profiles,
                       face_data, page, votePage, adminPage>>

\* the rows of the votes query of loadResults for viewer u
ResultsVotesData(u, e) ==
    {b \in SelectVotes(auth_uid(u)) : b.election_id = e}

\* loadResults: the votes query, the tally, setResults, setLoading(false)
loadResultsVotes ==
    LET pg == resultsPage
        votesData == ResultsVotesData(pg.viewer, pg.electionId)
    IN  /\ pg.pc = "loadVotes"
        /\ resultsPage' = [pg EXCEPT
              !.totalVotes = Cardinality(votesData),
              !.results = ResultsWithVotes(pg.candidatesData, votesData),
              !.candidatesData = <<>>,
              !.pc = "shown"]
        /\ toast' = NoToast
        /\ UNCHANGED <<now, cameraRefused, dbVars, sessions, profiles,
                       face_data, page, votePage, adminPage>>

\* a winner card that is rendered only for a first row with votes
WinnerShownWithVotes(pg) ==
    pg.pc = "shown" /\ pg.results # <<>> /\ pg.results[1].votes > 0

\* winner = results[0]; {winner && <Card>...}: the winner card is rendered
WinnerShown(pg) == pg.pc = "shown" /\ pg.results # <<>>

\* Back to Dashboard
ResultsNavigate ==
    /\ resultsPage.pc = "shown"
    /\ resultsPage' = DashboardFromResults
    /\ toast' = NoToast
    /\ UNCHANGED <<now, cameraRefused, dbVars, sessions, profiles, face_data,
                   page, votePage, adminPage>>

(***************************************************************************)
(* The other pages of a tab: Dashboard, FaceRegistration, AdminDashboard,  *)
(* CandidatesManagement and VotersManagement.  reads is the set of tables  *)
(* the page has loaded its data from.                                      *)
(***************************************************************************)
AdminRoutes == {"/admin", "/admin/candidates", "/admin/voters"}
VoterRoutes == {"/dashboard", "/face-registration"}
Routes == VoterRoutes \cup AdminRoutes

ClosedPage == [route |-> "none", user |-> Null, pc |-> "closed", reads |-> {}]

\* the component of `route` mounts and starts its effect with getSession
MountedPage(route, u) ==
    [ClosedPage EXCEPT !.route = route, !.user = u, !.pc = "getSession"]

\* navigate("/auth"): the sign-in page, which is not modelled further
AuthPage == [ClosedPage EXCEPT !.route = "/auth", !.pc = "shown"]

\* POLICIES "Users can view their own profile", "Admins can view all profiles"
profiles_select_policy(uid, id) == uid = id \/ has_role(uid, "admin")

\* POLICY "Users can update their own profile"
profiles_update_policy(uid, id) == uid = id

\* POLICIES "Users can view their own roles", "Admins can manage all roles"
user_roles_select_policy(uid, row) ==
    uid = row.user_id \/ has_role(uid, "admin")

\* POLICY "Users can insert their own face data"
face_data_insert_policy(uid, user_id) == uid = user_id

\* face_data.user_id ... NOT NULL UNIQUE
face_data_user_id_key(user_id) == user_id \notin face_data

\* .from("profiles").select(...).eq("id", id).single(): the rows found
SelectProfile(uid, id) ==
    IF id \in DOMAIN profiles /\ profiles_select_policy(uid, id)
    THEN {profiles[id]} ELSE {}

\* a role query that finds an admin row for everybody
RoleDataUnchecked(uid, id) == {[user_id |-> id, role |-> "admin"]}

\* .from("user_roles").select("role").eq("user_id", id).eq("role", "admin").single()
RoleData(uid, id) ==
    {r \in user_roles :
        /\ user_roles_select_policy(uid, r)
        /\ r.user_id = id /\ r.role = "admin"}

\* the tables a page queries for its data once its checks have passed
PageLoads(route) ==
    CASE route = "/dashboard"        -> {"elections"}
      [] route = "/admin"            -> {"profiles", "elections", "votes"}
      [] route = "/admin/candidates" -> {"elections", "candidates"}
      [] route = "/admin/voters"     -> {"profiles"}
      [] OTHER                       -> {}

\* user u opens `route` in the tab
OpenPage(u, route) ==
    /\ page.pc \in {"closed", "shown"}
    /\ page' = MountedPage(route, u)
    /\ toast' = NoToast
    /\ UNCHANGED <<now, cameraRefused, dbVars, sessions, profiles, face_data,
                   votePage, adminPage, resultsPage>>

\* the effect of each page: getSession, and navigate("/auth") without a session
pageGetSession ==
    /\ page.pc = "getSession"
    /\ page' = IF page.user \in sessions THEN [page EXCEPT !.pc = "query"]
               ELSE AuthPage
    /\ toast' = NoToast
    /\ UNCHANGED <<now, cameraRefused, dbVars, sessions, profiles, face_data,
                   votePage, adminPage, resultsPage>>

\* the query after getSession and the redirect it decides: the profile on the
\* Dashboard and on FaceRegistration, the admin role row on the admin pages
pageQuery ==
    LET uid == auth_uid(page.user)
        registered == \E pr \in SelectProfile(uid, page.user) : pr.face_registered
        denied == RoleData(uid, page.user) = {}
    IN  /\ page.pc = "query"
        /\ page' =
              CASE page.route = "/dashboard" ->
                      IF registered THEN [page EXCEPT !.pc = "load"]
                      ELSE MountedPage("/face-registration", page.user)
                [] page.route = "/face-registration" ->
                      IF registered THEN MountedPage("/dashboard", page.user)
                      ELSE [page EXCEPT !.pc = "shown"]
                [] OTHER ->
                      IF denied THEN MountedPage("/dashboard", page.user)
                      ELSE [page EXCEPT !.pc = "load"]
        /\ toast' =
              CASE page.route = "/dashboard" /\ ~registered -> Toast("info", 0, "")
                [] page.route \in AdminRoutes /\ denied ->
                      Toast("error", 0, "Access denied")
                [] OTHER -> NoToast
        /\ UNCHANGED <<now, cameraRefused, dbVars, sessions, profiles,
                       face_data, votePage, adminPage, resultsPage>>

\* the data queries of the page, setLoading(false)
pageLoad ==
    /\ page.pc = "load"
    /\ page' = [page EXCEPT !.reads = PageLoads(page.route), !.pc = "shown"]
    /\ toast' = NoToast
    /\ UNCHANGED <<now, cameraRefused, dbVars, sessions, profiles, face_data,
                   votePage, adminPage, resultsPage>>

\* registerFace: getSession and the face_data insert.  isError is
\* `error instanceof Error` of the error object the client returned.
registerFace(isError) ==
    LET uid == auth_uid(page.user)
        ok == face_data_insert_policy(uid, page.user)
                  /\ face_data_user_id_key(page.user)
    IN  /\ page.route = "/face-registration" /\ page.pc = "shown"
        /\ face_data' = IF page.user \in sessions /\ ok
                        THEN face_data \cup {page.user} ELSE face_data
        /\ page' = IF page.user \in sessions /\ ok
                   THEN [page EXCEPT !.pc = "registerProfile"] ELSE page
        /\ toast' = IF page.user \notin sessions
                    THEN Toast("error", 0, "Not authenticated")
                    ELSE IF ~ok /\ isError THEN Toast("error", 0, "face_data")
                    ELSE NoToast
        /\ UNCHANGED <<now, cameraRefused, dbVars, sessions, profiles,
                       votePage, adminPage, resultsPage>>

\* registerFace: the profiles update, then toast.success and
\* navigate("/dashboard"), or the catch block if the client returned an error.
\* The update has no constraint to violate and a policy that hides rows
\* without an error: profileError is a request that did not get through.
registerFaceProfile(profileError, isError) ==
    LET uid == auth_uid(page.user)
    IN  /\ page.pc = "registerProfile"
        /\ profiles' = IF ~profileError /\ profiles_update_policy(uid, page.user)
                       THEN [profiles EXCEPT ![page.user].face_registered = TRUE]
                       ELSE profiles
        /\ page' = IF profileError THEN [page EXCEPT !.pc = "shown"]
                   ELSE MountedPage("/dashboard", page.user)
        /\ toast' = IF ~profileError THEN Toast("success", 0, "")
                    ELSE IF isError THEN Toast("error", 0, "profiles")
                    ELSE NoToast
        /\ UNCHANGED <<now, cameraRefused, dbVars, sessions, face_data,
                       votePage, adminPage, resultsPage>>

(***************************************************************************)
(* Dashboard: sign out.                                                    *)
(***************************************************************************)
handleSignOut(u) ==
    /\ u \in sessions
    /\ sessions' = sessions \ {u}
    /\ toast' = Toast("success", 0, "")
    /\ UNCHANGED <<now, cameraRefused, dbVars, profiles, face_data, page,
                   votePage, adminPage, resultsPage>>

(***************************************************************************)
(* The clock.  No trigger, scheduled job or query of the application reads *)
(* start_time or end_time of an election.                                  *)
(***************************************************************************)
MaxTime == 2

\* an elections table on which a job ends the elections that are past end_time
ElectionsAtTimeEnforced(t) ==
    {IF e.end_time < t THEN [e EXCEPT !.status = "ended"] ELSE e : e \in elections}

\* the elections table when the time has become t
ElectionsAtTime(t) == elections

\* time passes
Tick ==
    /\ now < MaxTime
    /\ now' = now + 1
    /\ elections' = ElectionsAtTime(now + 1)
    /\ toast' = NoToast
    /\ UNCHANGED <<nextElectionId, candidates, nextCandidateId, votes,
                   sessions, cameraRefused, profiles, face_data, page,
                   votePage, adminPage, resultsPage>>

(***************************************************************************)
(* Specification: the pages from an empty database.                        *)
(***************************************************************************)
Init ==
    /\ elections = {}
    /\ nextElectionId = 1
    /\ candidates = {}
    /\ nextCandidateId = 1
    /\ votes = {}
    /\ sessions = Users
    /\ now = 0
    /\ cameraRefused = {}
    /\ profiles = [u \in Users |-> [face_registered |-> FALSE]]
    /\ face_data = {}
    /\ page = ClosedPage
    /\ votePage = [p \in VotePages |-> ClosedVotePage]
    /\ adminPage = [a \in AdminPages |-> ClosedAdminPage]
    /\ resultsPage = ClosedResultsPage
    /\ toast = NoToast

ElectionIds == 1..MaxElections

\* the start and end times the create-election form is submitted with
FormTimes == {1}
CandidateIds == 1..MaxCandidates

VoteNext(p) ==
    \/ \E u \in Users, e \in ElectionIds : OpenVote(p, u, e)
    \/ loadElection(p)
    \/ loadElectionCandidates(p)
    \/ loadElectionVote(p)
    \/ \E c \in CandidateIds : setSelectedCandidate(p, c)
    \/ handleCastVote(p)
    \/ DialogOnOpenChange(p)
    \/ \E granted \in BOOLEAN : startCamera(p, granted)
    \/ verifyAndSubmit(p)
    \/ \E r \in Receipts, isError \in BOOLEAN :
          verifyAndSubmitInsert(p, r, isError)
    \/ navigateDashboard(p)

ElectionsNext(a) ==
    \/ \E u \in Users : checkAdminAndLoadElections(a, u)
    \/ \E start_time \in FormTimes, end_time \in FormTimes :
          ElectionsOnSubmit(a, start_time, end_time)
    \/ \E id \in ElectionIds, status \in ElectionStatus :
          updateElectionStatus(a, id, status)
    \/ \E id \in ElectionIds : publishResults(a, id)
    \/ \E id \in ElectionIds : deleteElection(a, id)
    \/ AdminNavigate(a)

CandidatesNext ==
    \E u \in Users :
        \/ \E e \in ElectionIds : CandidatesOnSubmit(u, e)
        \/ \E c \in CandidateIds : deleteCandidate(u, c)

ResultsNext ==
    \/ \E u \in Users, e \in ElectionIds : OpenResults(u, e)
    \/ loadResults
    \/ loadResultsCandidates
    \/ loadResultsVotes
    \/ ResultsNavigate

Next ==
    \/ \E p \in VotePages : VoteNext(p)
    \/ \E a \in AdminPages : ElectionsNext(a)
    \/ CandidatesNext

Spec == Init /\ [][Next]_vars

(***************************************************************************)
(* Specification: one Vote page, the admin pages, the Results page and     *)
(* sign-out, from an empty database.                                       *)
(***************************************************************************)
ResultsSpecNext ==
    \/ VoteNext(1)
    \/ \E a \in AdminPages : ElectionsNext(a)
    \/ CandidatesNext
    \/ ResultsNext
    \/ \E u \in Users : handleSignOut(u)

ResultsSpec == Init /\ [][ResultsSpecNext]_vars

(***************************************************************************)
(* Specification: the tally of an ended, published election.  The ballot   *)
(* store is drawn from the splits of up to MaxBallots ballots over the     *)
(* candidates (voters 1..n, each with one ballot); a user opens the        *)
(* Results page while an admin may delete candidates.                      *)
(***************************************************************************)
MaxBallots == 10
NumTallyCandidates == 3

TallyCandidateIds == 1..NumTallyCandidates

RECURSIVE SplitBefore(_, _)
SplitBefore(split, c) ==
    IF c = 1 THEN 0 ELSE SplitBefore(split, c - 1) + split[c - 1]

Splits ==
    {split \in [TallyCandidateIds -> 0..MaxBallots] :
        SplitBefore(split, NumTallyCandidates + 1) <= MaxBallots}

\* voters are numbered candidate by candidate; the receipt is the voter's number
SplitVotes(split) ==
    UNION {{VoteRow(1, c, v, v) :
                v \in (SplitBefore(split, c) + 1)..SplitBefore(split, c + 1)} :
           c \in TallyCandidateIds}

TallyInit ==
    /\ elections = {[id |-> 1, start_time |-> 1, end_time |-> 1,
                     status |-> "ended", results_published |-> TRUE]}
    /\ nextElectionId = 2
    /\ candidates = {[id |-> c, election_id |-> 1] : c \in TallyCandidateIds}
    /\ nextCandidateId = NumTallyCandidates + 1
    /\ votes \in {SplitVotes(split) : split \in Splits}
    /\ sessions = Users
    /\ now = 0
    /\ cameraRefused = {}
    /\ profiles = [u \in Users |-> [face_registered |-> TRUE]]
    /\ face_data = Users
    /\ page = ClosedPage
    /\ votePage = [p \in VotePages |-> ClosedVotePage]
    /\ adminPage = [a \in AdminPages |-> ClosedAdminPage]
    /\ resultsPage = ClosedResultsPage
    /\ toast = NoToast

TallyNext ==
    \/ ResultsNext
    \/ \E u \in Users, c \in TallyCandidateIds : deleteCandidate(u, c)

TallySpec == TallyInit /\ [][TallyNext]_vars

(***************************************************************************)
(* Specification: one Vote page, the admin pages, and a tab on the         *)
(* Dashboard and FaceRegistration pages, from an empty database in which   *)
(* no voter has registered a face.                                         *)
(***************************************************************************)
PageNext(routes) ==
    \/ \E u \in Users, route \in routes : OpenPage(u, route)
    \/ pageGetSession
    \/ pageQuery
    \/ pageLoad

FaceNext ==
    \/ \E isError \in BOOLEAN : registerFace(isError)
    \/ \E profileError \in BOOLEAN, isError \in BOOLEAN :
          registerFaceProfile(profileError, isError)

FaceSpecNext ==
    \/ VoteNext(1)
    \/ \E a \in AdminPages : ElectionsNext(a)
    \/ CandidatesNext
    \/ PageNext(VoterRoutes)
    \/ FaceNext

FaceSpec == Init /\ [][FaceSpecNext]_vars

(***************************************************************************)
(* Specification: several ElectionsManagement tabs of the administrator    *)
(* and the CandidatesManagement page, from an empty database.  Each tab    *)
(* renders its buttons from the list it loaded last.                       *)
(***************************************************************************)
NumAdminSessions == 2

AdminSessions == 1..NumAdminSessions

AdminInit ==
    /\ elections = {}
    /\ nextElectionId = 1
    /\ candidates = {}
    /\ nextCandidateId = 1
    /\ votes = {}
    /\ sessions = Users
    /\ now = 0
    /\ cameraRefused = {}
    /\ profiles = [u \in Users |-> [face_registered |-> FALSE]]
    /\ face_data = {}
    /\ page = ClosedPage
    /\ votePage = [p \in VotePages |-> ClosedVotePage]
    /\ adminPage = [a \in AdminSessions |-> ClosedAdminPage]
    /\ resultsPage = ClosedResultsPage
    /\ toast = NoToast

AdminSpecNext ==
    \/ \E a \in AdminSessions : ElectionsNext(a)
    \/ CandidatesNext

AdminSpec == AdminInit /\ [][AdminSpecNext]_vars

(***************************************************************************)
(* Specification: the loading of every page, with and without a session.   *)
(* The database holds one election with a candidate and a ballot, either   *)
(* active or ended with its results published; users sign out at any time. *)
(***************************************************************************)
GuardInit ==
    /\ \E status \in {"active", "ended"} :
          elections = {[id |-> 1, start_time |-> 1, end_time |-> 1,
                        status |-> status,
                        results_published |-> (status = "ended")]}
    /\ nextElectionId = 2
    /\ candidates = {[id |-> 1, election_id |-> 1]}
    /\ nextCandidateId = 2
    /\ votes = {VoteRow(1, 1, 1, 1)}
    /\ sessions = Users
    /\ now = 0
    /\ cameraRefused = {}
    /\ profiles \in [Users -> [face_registered : BOOLEAN]]
    /\ face_data = {u \in Users : profiles[u].face_registered}
    /\ page = ClosedPage
    /\ votePage = [p \in VotePages |-> ClosedVotePage]
    /\ adminPage = [a \in AdminPages |-> ClosedAdminPage]
    /\ resultsPage = ClosedResultsPage
    /\ toast = NoToast

GuardSpecNext ==
    \/ PageNext(Routes)
    \/ \E u \in Users, e \in ElectionIds : OpenVote(1, u, e)
    \/ loadElection(1)
    \/ loadElectionCandidates(1)
    \/ loadElectionVote(1)
    \/ navigateDashboard(1)
    \/ \E a \in AdminPages, u \in Users : checkAdminAndLoadElections(a, u)
    \/ \E a \in AdminPages : AdminNavigate(a)
    \/ ResultsNext
    \/ \E u \in Users : handleSignOut(u)

GuardSpec == GuardInit /\ [][GuardSpecNext]_vars

(***************************************************************************)
(* Specification: a voter's tab on the Vote pages of several active        *)
(* elections, each with one candidate, while an admin may delete           *)
(* candidates.                                                             *)
(***************************************************************************)
NumCrossElections == 2

CrossElectionIds == 1..NumCrossElections

CrossInit ==
    /\ elections = {[id |-> e, start_time |-> 1, end_time |-> 1,
                      status |-> "active", results_published |-> FALSE] :
                        e \in CrossElectionIds}
    /\ nextElectionId = NumCrossElections + 1
    /\ candidates = {[id |-> e, election_id |-> e] : e \in CrossElectionIds}
    /\ nextCandidateId = NumCrossElections + 1
    /\ votes = {}
    /\ sessions = Users
    /\ now = 0
    /\ cameraRefused = {}
    /\ profiles = [u \in Users |-> [face_registered |-> TRUE]]
    /\ face_data = Users
    /\ page = ClosedPage
    /\ votePage = [p \in VotePages |-> ClosedVotePage]
    /\ adminPage = [a \in AdminPages |-> ClosedAdminPage]
    /\ resultsPage = ClosedResultsPage
    /\ toast = NoToast

CrossSpecNext ==
    \/ \E u \in Users, e \in CrossElectionIds : OpenVote(1, u, e)
    \/ loadElection(1)
    \/ loadElectionCandidates(1)
    \/ loadElectionVote(1)
    \/ \E c \in CrossElectionIds : setSelectedCandidate(1, c)
    \/ handleCastVote(1)
    \/ DialogOnOpenChange(1)
    \/ \E granted \in BOOLEAN : startCamera(1, granted)
    \/ verifyAndSubmit(1)
    \/ \E r \in Receipts, isError \in BOOLEAN :
          verifyAndSubmitInsert(1, r, isError)
    \/ navigateDashboard(1)
    \/ \E u \in Users, c \in CrossElectionIds : deleteCandidate(u, c)

CrossSpec == CrossInit /\ [][CrossSpecNext]_vars

(***************************************************************************)
(* Specification: one Vote page, the admin pages and the Results page      *)
(* while time passes, from an empty database.  Elections are created with  *)
(* the window [1, 1]; the clock runs from 0 to MaxTime.                    *)
(***************************************************************************)
ClockSpecNext ==
    \/ VoteNext(1)
    \/ \E a \in AdminPages : ElectionsNext(a)
    \/ CandidatesNext
    \/ ResultsNext
    \/ Tick

ClockSpec == Init /\ [][ClockSpecNext]_vars

(***************************************************************************)
(* Properties.                                                             *)
(***************************************************************************)
Ballots(e) == {b \in votes : b.election_id = e}
BallotsFor(e, c) == {b \in Ballots(e) : b.candidate_id = c}

\* the step in which the insert of the verifyAndSubmit call of page p returns
InsertStep(p) ==
    votePage[p].callPc = "delay" /\ votePage'[p].callPc = "idle"

\* the step in which loadResults reads the votes and sets the results
TallyStep == resultsPage.pc = "loadVotes" /\ resultsPage'.pc = "shown"

\* C1: in every reachable state there is at most one ballot row for each
\* (election, voter), also when two pages of one voter race to cast
C1_OneBallotPerElectionVoter ==
    \A b1, b2 \in votes :
        (b1.election_id = b2.election_id /\ b1.voter_id = b2.voter_id)
            => b1 = b2

\* two pages of one voter were both loaded before a ballot existed; one cast
\* it, and the insert of the other was rejected by the unique constraint
C1_Witness ==
    \E p, q \in VotePages :
        /\ p # q
        /\ votePage[p].mounted /\ votePage[q].mounted
        /\ votePage[p].user = votePage[q].user
        /\ votePage[p].electionId = votePage[q].electionId
        /\ votePage[p].hasVoted /\ votePage[p].stream = "stopped"
        /\ ~votePage[q].hasVoted
        /\ toast = Toast("error", q, "votes_election_id_voter_id_key")
        /\ Cardinality(Ballots(votePage[p].electionId)) = 1

\* C2: every ballot row is created in a step in which its election has status
\* active; an insert for an election that is not active stores nothing
C2_InsertOnlyWhileActive ==
    [][\A b \in votes' \ votes :
          \E e \in elections : e.id = b.election_id /\ e.status = "active"]_vars

\* C3: an insert for an (election, voter) that already has a ballot is rejected
\* and leaves the ballot store, hence the existing row, unchanged
C3_SecondCastRejected ==
    [][\A p \in VotePages :
          (/\ InsertStep(p)
           /\ \E b \in votes : /\ b.election_id = votePage[p].callElection
                               /\ b.voter_id = votePage[p].callUser)
              => votes' = votes]_vars

\* the second cast of a voter was rejected and the voter's ballot is in the store
C3_Witness ==
    \E p \in VotePages :
        /\ toast = Toast("error", p, "votes_election_id_voter_id_key")
        /\ votePage[p].mounted
        /\ \E b \in votes : /\ b.election_id = votePage[p].electionId
                            /\ b.voter_id = votePage[p].user
                            /\ b.face_verified

\* C4: no two ballot rows carry the same receipt, and no step stores a row
\* whose receipt equals that of a row already in the store
C4_ReceiptUnique ==
    /\ [](\A b1, b2 \in votes : b1.vote_receipt = b2.vote_receipt => b1 = b2)
    /\ [][\A b \in votes' \ votes :
             \A old \in votes : old.vote_receipt # b.vote_receipt]_vars

\* an insert was rejected for its receipt while another ballot holds it
C4_Witness ==
    \E p \in VotePages :
        /\ toast = Toast("error", p, "votes_vote_receipt_key")
        /\ votes # {}
        /\ \A b \in votes : ~(b.election_id = votePage[p].electionId
                              /\ b.voter_id = votePage[p].user)

\* C5: while an election is unpublished, a results request for it is not past
\* the published check: no candidates or votes read, no tally, nothing shown
C5_ResultsWithheld ==
    \A e \in elections :
        (e.id = resultsPage.electionId /\ ~e.results_published)
            => /\ resultsPage.pc = "loadElection"
               /\ resultsPage.results = <<>>
               /\ resultsPage.totalVotes = 0

\* no election was ever published, an ended election with ballots is
\* unpublished, and the viewer was sent to the dashboard
C5_Witness ==
    /\ resultsPage.pc = "dashboard"
    /\ Cardinality(elections) = nextElectionId - 1
    /\ \A e \in elections : ~e.results_published
    /\ \E e \in elections : e.status = "ended" /\ Ballots(e.id) # {}

\* C6: the tally set by loadResults gives each candidate the number of ballot
\* rows of the store for the election and the candidate, and as total the
\* number of ballot rows of the election, for every viewer
C6_TallyMatchesStore ==
    [][TallyStep =>
          LET e == resultsPage.electionId
              rows == resultsPage'.results
          IN  /\ resultsPage'.totalVotes = Cardinality(Ballots(e))
              /\ \A i \in 1..Len(rows) :
                    rows[i].votes = Cardinality(BallotsFor(e, rows[i].id))]_vars

RECURSIVE SumVotes(_)
SumVotes(rows) ==
    IF rows = <<>> THEN 0 ELSE Head(rows).votes + SumVotes(Tail(rows))

\* the sum of two exact numbers, in lowest terms
AddNumbers(x, y) ==
    LET n == x[1] * y[2] + y[1] * x[2]
        d == x[2] * y[2]
        g == Gcd(n, d)
    IN  IF g = 0 THEN NaN ELSE <<n \div g, d \div g>>

RECURSIVE SumPercentages(_)
SumPercentages(rows) ==
    IF rows = <<>> THEN Number(0)
    ELSE AddNumbers(Head(rows).percentage, SumPercentages(Tail(rows)))

\* C7: for an election with N > 0 ballots the counts of the tally sum to N and
\* the percentages to 100
C7_CountsSumToTotal ==
    [][TallyStep =>
          LET N == Cardinality(Ballots(resultsPage.electionId))
          IN  N > 0 => /\ SumVotes(resultsPage'.results) = N
                       /\ SumPercentages(resultsPage'.results) = Number(100)]_vars

\* C8: no percentage of a tally comes out of a division by zero, and the tally
\* of an election without ballots has count 0 and percentage 0 in every row
C8_ZeroBallots ==
    [][TallyStep =>
          LET rows == resultsPage'.results
          IN  /\ \A i \in 1..Len(rows) : rows[i].percentage[2] # 0
              /\ Ballots(resultsPage.electionId) = {}
                    => \A i \in 1..Len(rows) :
                          /\ rows[i].votes = 0
                          /\ rows[i].percentage = Number(0)]_vars

\* the tally of an election with all its candidates and no ballot is shown
C8_Witness ==
    /\ resultsPage.pc = "shown"
    /\ Len(resultsPage.results) = NumTallyCandidates
    /\ Cardinality(candidates) = NumTallyCandidates
    /\ votes = {}
    /\ resultsPage.totalVotes = 0
    /\ \A i \in 1..Len(resultsPage.results) :
          resultsPage.results[i].percentage = Number(0)

\* the store of election e holds 10 ballots split 5/3/2 over three candidates
Split532(e) ==
    /\ Cardinality(SelectCandidates(e)) = 3
    /\ Cardinality(Ballots(e)) = 10
    /\ \E c5, c3, c2 \in {c.id : c \in SelectCandidates(e)} :
          /\ Cardinality(BallotsFor(e, c5)) = 5
          /\ Cardinality(BallotsFor(e, c3)) = 3
          /\ Cardinality(BallotsFor(e, c2)) = 2

\* C9: the rows of a tally are in descending order of votes, the first row has
\* the highest count, and a 5/3/2 split of 10 ballots is reported as 50%, 30%,
\* 20% in that order with the candidate of 5 ballots first
C9_SortedWithWinner ==
    [][TallyStep =>
          LET e == resultsPage.electionId
              rows == resultsPage'.results
          IN  /\ \A i, j \in 1..Len(rows) :
                    i < j => rows[i].votes >= rows[j].votes
              /\ \A i \in 1..Len(rows) : rows[1].votes >= rows[i].votes
              /\ Split532(e) =>
                    /\ Len(rows) = 3
                    /\ rows[1].percentage = Number(50)
                    /\ rows[2].percentage = Number(30)
                    /\ rows[3].percentage = Number(20)
                    /\ rows[1].votes = 5
                    /\ Cardinality(BallotsFor(e, rows[1].id)) = 5]_vars

\* C10: a failed insert of verifyAndSubmit is reported to the voter by an error
\* notification, and a step that stores a ballot stores one row and ends the
\* invocation that made the insert
C10_FailureSurfacedNoRetry ==
    [][/\ \A p \in VotePages :
             (InsertStep(p) /\ votes' = votes)
                 => toast'.kind = "error" /\ toast'.page = p
       /\ (votes' \ votes # {})
             => /\ Cardinality(votes' \ votes) = 1
                /\ \E p \in VotePages : InsertStep(p)]_vars

\* C11: a camera stream acquired by startCamera is released on every exit
\* path: no mounted page has the dialog closed with a live stream, and the
\* stream of a mounted page is not live after its insert returned, whether the
\* cast succeeded or failed
C11_CameraReleased ==
    /\ [](\A p \in VotePages :
             (votePage[p].mounted /\ ~votePage[p].showVerification)
                 => votePage[p].stream # "live")
    /\ [][\A p \in VotePages :
             (InsertStep(p) /\ votePage'[p].mounted)
                 => votePage'[p].stream # "live"]_vars

\* C12: every ballot row is created in a step in which the profile of its
\* voter has face_registered = TRUE
C12_FaceRegisteredToVote ==
    [][\A b \in votes' \ votes :
          /\ b.voter_id \in DOMAIN profiles
          /\ profiles[b.voter_id].face_registered]_vars

\* C13: every change of the status of an election is one of scheduled->active,
\* active->paused, active->ended, paused->active
C13_StatusTransitions ==
    [][\A e \in elections, f \in elections' :
          (e.id = f.id /\ e.status # f.status)
              => <<e.status, f.status>> \in
                    {<<"scheduled", "active">>, <<"active", "paused">>,
                     <<"active", "ended">>, <<"paused", "active">>}]_vars

C15_DeleteCascades ==
    /\ [](/\ \A c \in candidates : ElectionExists(c.election_id)
          /\ \A b \in votes : /\ ElectionExists(b.election_id)
                              /\ CandidateExists(b.candidate_id))
    /\ [][\A a \in DOMAIN adminPage, id \in ElectionIds :
             (deleteElection(a, id) /\ adminPage[a].user \in sessions)
                 => /\ \A e \in elections' : e.id # id
                    /\ \A c \in candidates' : c.election_id # id
                    /\ \A b \in votes' : b.election_id # id]_vars

\* an election with a candidate and a ballot was deleted: the voter's page
\* still shows the cast, and no election, candidate or ballot is left
C15_Witness ==
    /\ nextElectionId > 1 /\ elections = {}
    /\ nextCandidateId > 1 /\ candidates = {}
    /\ votes = {}
    /\ \E p \in VotePages : votePage[p].mounted /\ votePage[p].hasVoted
    /\ \E a \in DOMAIN adminPage : adminPage[a].open /\ adminPage[a].elections = {}

\* C16: a ballot row stays in the store, unchanged, as long as its election
\* exists, and a ballot is stored for an (election, voter) only if the store
\* holds none for them
C16_BallotImmutable ==
    [][/\ \A b \in votes :
             (\E e \in elections' : e.id = b.election_id) => b \in votes'
       /\ \A b \in votes' \ votes :
             \A old \in votes : ~(/\ old.election_id = b.election_id
                                  /\ old.voter_id = b.voter_id)]_vars

\* C17: a failed insert of verifyAndSubmit leaves the ballot store as it was,
\* and after it the page does not show the dialog with an enabled submit button
C17_FailedInsertRestarts ==
    [][\A p \in VotePages :
          (InsertStep(p) /\ toast'.kind # "success")
              => /\ votes' = votes
                 /\ ~SubmitEnabled(votePage'[p])]_vars

\* C18: a page loaded without a session goes to the sign-in route and reads no
\* table: the Dashboard, FaceRegistration and admin pages at their session
\* check, the Vote page, the ElectionsManagement page, and the Results page
C18_NoSessionRedirects ==
    [][/\ (page.pc = "getSession" /\ page.user \notin sessions /\ page' # page)
             => page' = AuthPage
       /\ (/\ votePage[1].mounted /\ votePage[1].pc = "loadElection"
           /\ votePage[1].user \notin sessions /\ votePage'[1] # votePage[1])
             => votePage'[1] = ClosedVotePage /\ toast' = NoToast
       /\ \A a \in DOMAIN adminPage :
             (~adminPage[a].open /\ adminPage'[a].open)
                 => adminPage'[a].user \in sessions
       /\ (/\ resultsPage.pc = "loadElection"
           /\ resultsPage.viewer \notin sessions /\ resultsPage' # resultsPage)
             => resultsPage'.pc = "auth"]_vars

\* C19: on an admin page a signed-in user without an admin role row gets an
\* error notification and is sent to the dashboard with nothing loaded; an
\* admin page runs its role query only after its session was found, and loads
\* its data only after the role query found the admin row
C19_AdminAccessDenied ==
    [][/\ (/\ page.route \in AdminRoutes /\ page.pc = "query"
           /\ page.user \in sessions /\ ~has_role(page.user, "admin")
           /\ page' # page)
             => /\ toast' = Toast("error", 0, "Access denied")
                /\ page' = MountedPage("/dashboard", page.user)
       /\ (page'.route \in AdminRoutes /\ page'.pc = "query" /\ page' # page)
             => /\ page.pc = "getSession" /\ page.route = page'.route
                /\ page.user \in sessions
       /\ (page'.route \in AdminRoutes /\ page'.pc = "load" /\ page' # page)
             => /\ page.pc = "query" /\ page.route = page'.route
                /\ page.user \in sessions /\ has_role(page.user, "admin")
       /\ (page'.route \in AdminRoutes /\ page'.reads # {} /\ page' # page)
             => page.pc = "load" /\ page.route = page'.route
       /\ \A a \in DOMAIN adminPage, u \in Users :
             /\ (/\ checkAdminAndLoadElections(a, u)
                 /\ u \in sessions /\ ~has_role(u, "admin"))
                   => toast'.kind = "error" /\ adminPage'[a] = ClosedAdminPage
             /\ (~adminPage[a].open /\ adminPage'[a].open)
                   => /\ adminPage'[a].user \in sessions
                      /\ has_role(adminPage'[a].user, "admin")]_vars

\* a signed-in user without the admin role was denied on an admin page and is
\* on the way to the dashboard with nothing loaded
C19_Witness ==
    /\ toast = Toast("error", 0, "Access denied")
    /\ page = MountedPage("/dashboard", page.user)
    /\ page.user \in sessions /\ ~has_role(page.user, "admin")

C21_StatusOnlyByAdmin ==
    [][/\ \A e \in elections, f \in elections' :
             (e.id = f.id /\ e.status # f.status)
                 => \E a \in DOMAIN adminPage, status \in ElectionStatus :
                       /\ updateElectionStatus(a, e.id, status)
                       /\ adminPage[a].user \in sessions
                       /\ has_role(adminPage[a].user, "admin")
                       /\ f.status = status
       /\ (now' # now \/ votePage' # votePage \/ resultsPage' # resultsPage)
             => elections' = elections
       /\ \A a \in DOMAIN adminPage, id \in ElectionIds :
             publishResults(a, id)
                 => \A e \in elections :
                       \E f \in elections' : f.id = e.id /\ f.status = e.status]_vars

\* a ballot was cast for an active election after its end_time had passed
C21_Witness ==
    \E p \in VotePages, e \in elections :
        /\ toast = Toast("success", p, "")
        /\ votePage[p].mounted /\ votePage[p].electionId = e.id
        /\ e.status = "active"
        /\ now > e.end_time
        /\ \E b \in votes : b.election_id = e.id /\ b.voter_id = votePage[p].user

\* the store holds a ballot of the user of the page for the election of the page
BallotExists(pg) ==
    \E b \in votes : b.election_id = pg.electionId /\ b.voter_id = pg.user

\* the step in which an invocation of verifyAndSubmit of page p gets past its
\* session check, on the way to the insert
CallStep(p) ==
    votePage[p].callPc = "idle" /\ votePage'[p].callPc = "delay"

\* C22: when loadElection of a signed-in voter finds no election or one
\* that is not active, the page is left for the dashboard with an error
\* notification; when the load ends while the store holds a ballot of the voter
\* for the election, the page shows the already-voted view; and an invocation of
\* verifyAndSubmit goes on to the insert only from a mounted, loaded page that
\* does not show the already-voted view
C22_LoadGuards ==
    [][\A p \in VotePages :
          /\ (/\ votePage[p].mounted /\ votePage[p].pc = "loadElection"
              /\ votePage[p].user \in sessions
              /\ votePage'[p] # votePage[p]
              /\ ~\E e \in elections : /\ e.id = votePage[p].electionId
                                       /\ e.status = "active")
                => /\ votePage'[p] = ClosedVotePage
                   /\ toast' = Toast("error", p, "not available")
          /\ (/\ votePage[p].pc = "loadVote" /\ votePage'[p].pc = "ready"
              /\ BallotExists(votePage[p]))
                => votePage'[p].hasVoted
          /\ CallStep(p)
                => /\ votePage[p].mounted /\ votePage[p].pc = "ready"
                   /\ ~votePage[p].hasVoted]_vars

\* C23: an invocation of verifyAndSubmit by a voter with a session goes on to
\* the insert, whether or not the voter has a face_data row; the step that ends
\* its delay sends the insert; and every ballot row has face_verified = TRUE
C23_VerificationNeverRejects ==
    /\ [](\A b \in votes : b.face_verified)
    /\ [][\A p \in VotePages :
             /\ (verifyAndSubmit(p) /\ votePage[p].user \in sessions)
                   => CallStep(p)
             /\ (votePage[p].callPc = "delay" /\ votePage'[p].callPc # "delay")
                   => \E r \in Receipts :
                         votes' = VotesAfterInsert(
                                     auth_uid(votePage[p].callUser),
                                     VoteRow(votePage[p].callElection,
                                             votePage[p].callCandidate,
                                             votePage[p].callUser, r))
             /\ \A b \in votes' \ votes : b.face_verified]_vars

\* a ballot with face_verified = TRUE was stored for a voter without face data
C23_Witness ==
    \E p \in VotePages, b \in votes :
        /\ toast = Toast("success", p, "")
        /\ b.voter_id = votePage[p].user
        /\ b.face_verified
        /\ b.voter_id \notin face_data

\* C24: a row that enters the elections table has status scheduled and
\* results_published = FALSE; and an election with status scheduled is not
\* published, has no ballot, no Vote page or invocation of verifyAndSubmit past
\* the load for it, and no Results page past the published check for it
C24_CreatedScheduled ==
    /\ [][\A f \in elections' :
             (\A e \in elections : e.id # f.id)
                 => f.status = "scheduled" /\ f.results_published = FALSE]_vars
    /\ [](\A e \in elections :
             e.status = "scheduled"
                 => /\ ~e.results_published
                    /\ Ballots(e.id) = {}
                    /\ \A p \in VotePages :
                          /\ (votePage[p].mounted /\ votePage[p].electionId = e.id)
                                => votePage[p].pc = "loadElection"
                          /\ votePage[p].callElection # e.id
                    /\ resultsPage.electionId = e.id
                          => resultsPage.pc = "loadElection")

\* an election was created and not acted on: the voter who opened its Vote page
\* was sent back with the error notification, and the Results page was left
C24_Witness ==
    /\ \E e \in elections : e.status = "scheduled" /\ ~e.results_published
    /\ toast = Toast("error", 1, "not available")
    /\ resultsPage.pc = "dashboard"
    /\ votes = {}

\* C25: no step takes results_published of an election that stays in the
\* table from TRUE to FALSE
C25_PublishedMonotone ==
    [][\A e \in elections, f \in elections' :
          (e.id = f.id /\ e.results_published) => f.results_published]_vars

\* the status of a published election was changed after publishResults, and
\* the election is still published
C25_Witness ==
    \E e \in elections : e.results_published /\ e.status = "active"

\* C26: in every reachable state an election with results_published = TRUE has
\* status ended, and publishResults is sent only from a list that shows the
\* election as ended and unpublished
C26_PublishedOnlyEnded ==
    /\ [](\A e \in elections : e.results_published => e.status = "ended")
    /\ [][\A a \in DOMAIN adminPage, id \in ElectionIds :
             publishResults(a, id)
                 => \E shown \in adminPage[a].elections :
                       /\ shown.id = id /\ shown.status = "ended"
                       /\ ~shown.results_published]_vars

\* C27: an invocation of verifyAndSubmit goes on to the insert only from a
\* page with a selected candidate, the dialog open and a stream obtained, and
\* never from a page in which camera access has been refused since the mount
C27_NoInsertOnceRefused ==
    [][\A p \in VotePages :
          CallStep(p)
              => /\ votePage[p].selectedCandidate # Null
                 /\ votePage[p].showVerification
                 /\ votePage[p].stream = "live"
                 /\ p \notin cameraRefused]_vars

\* C27 (amended): an invocation of verifyAndSubmit goes on to the insert only
\* from a page with a selected candidate, the dialog open and a stream
\* obtained; a refused startCamera leaves the page without a stream, and a page
\* without a stream has no submit button and no invocation on the way to the
\* insert
C27_InsertOnlyWithStream ==
    /\ [][\A p \in VotePages :
             /\ CallStep(p)
                   => /\ votePage[p].selectedCandidate # Null
                      /\ votePage[p].showVerification
                      /\ votePage[p].stream = "live"
             /\ (p \in cameraRefused' /\ p \notin cameraRefused)
                   => /\ votePage'[p].stream = "null"
                      /\ toast' = Toast("error", p, "camera")]_vars
    /\ [](\A p \in VotePages :
             (votePage[p].mounted /\ votePage[p].stream = "null")
                 => /\ ~SubmitEnabled(votePage[p])
                    /\ votePage[p].callPc = "idle")

\* camera access was refused in a page and granted on a later attempt, and the
\* ballot of the page was stored
C27_Witness ==
    \E p \in VotePages :
        /\ p \in cameraRefused
        /\ toast = Toast("success", p, "")
        /\ votePage[p].mounted /\ votePage[p].hasVoted
        /\ BallotExists(votePage[p])

\* C28: in every reachable state a voter has a face_data row if and only if
\* the voter's profile has face_registered = TRUE, and registerFace called by a
\* signed-in voter whose profile is not registered gets its face data stored
\* and goes on to the profile update
C28_RegisterAllOrNothing ==
    /\ [](\A u \in Users : u \in face_data <=> profiles[u].face_registered)
    /\ [][\A isError \in BOOLEAN :
             (/\ registerFace(isError)
              /\ page.user \in sessions
              /\ ~profiles[page.user].face_registered)
                 => page'.pc = "registerProfile"]_vars

\* C29: verifying is TRUE only while an invocation of verifyAndSubmit is in
\* flight: it is FALSE after the insert returned, with or without an error,
\* and after an invocation that found no session; after an insert that stored
\* the ballot the page has hasVoted = TRUE and the dialog closed; hasVoted
\* stays TRUE while the page is mounted, and no invocation goes on to the
\* insert from a page with hasVoted = TRUE
C29_InvocationEnds ==
    /\ [](\A p \in VotePages :
             (votePage[p].mounted /\ votePage[p].verifying)
                 => votePage[p].callPc = "delay")
    /\ [][\A p \in VotePages :
             /\ (InsertStep(p) /\ votePage'[p].mounted)
                   => ~votePage'[p].verifying
             /\ (verifyAndSubmit(p) /\ votePage[p].user \notin sessions)
                   => /\ ~votePage'[p].verifying
                      /\ votePage'[p].callPc = "idle"
                      /\ votes' = votes
             /\ (InsertStep(p) /\ votes' # votes /\ votePage'[p].mounted)
                   => /\ votePage'[p].hasVoted
                      /\ ~votePage'[p].showVerification
             /\ (votePage[p].hasVoted /\ votePage'[p].mounted)
                   => votePage'[p].hasVoted
             /\ votePage[p].hasVoted => ~CallStep(p)]_vars

\* the insert of a page stored the ballot: the page shows the already-voted
\* view with the dialog closed, verifying FALSE and no invocation in flight
C29_Witness ==
    \E p \in VotePages :
        /\ toast = Toast("success", p, "")
        /\ votePage[p].mounted /\ votePage[p].hasVoted
        /\ ~votePage[p].showVerification /\ ~votePage[p].verifying
        /\ votePage[p].callPc = "idle"
        /\ votePage[p].stream = "stopped"

\* C30: the tally has one row for each candidate the candidates query of the
\* page returned for the election; the winner card is shown exactly when that
\* query returned at least one candidate, whatever the ballots, and the row it
\* shows, the first of the tally, has a count no other row exceeds
C30_WinnerFirstRow ==
    /\ [][(resultsPage.pc = "loadCandidates" /\ resultsPage'.pc = "loadVotes")
             => LET ids == {c.id : c \in SelectCandidates(resultsPage.electionId)}
                    data == resultsPage'.candidatesData
                IN  /\ Len(data) = Cardinality(ids)
                    /\ {data[i] : i \in 1..Len(data)} = ids]_vars
    /\ [][TallyStep
             => LET rows == resultsPage'.results
                IN  /\ Len(rows) = Len(resultsPage.candidatesData)
                    /\ WinnerShown(resultsPage')
                          <=> resultsPage.candidatesData # <<>>
                    /\ \A i \in 1..Len(rows) : rows[1].votes >= rows[i].votes]_vars
    /\ [](resultsPage.pc = "shown"
             => (WinnerShown(resultsPage) <=> resultsPage.results # <<>>))

\* the winner card is shown for an election without ballots: all its
\* candidates share the highest count, 0
C30_Witness ==
    /\ WinnerShown(resultsPage)
    /\ Len(resultsPage.results) = NumTallyCandidates
    /\ Ballots(resultsPage.electionId) = {}
    /\ resultsPage.totalVotes = 0
    /\ \A i \in 1..Len(resultsPage.results) : resultsPage.results[i].votes = 0
=============================================================================
